---- MODULE Spec2Model ----
(***************************************************************************)
(* The ClinicalBERT dashboard page (clinicalbert-api/app/page.tsx): a      *)
(* tabbed form whose submit buttons start a simulated API call (a 2000 ms  *)
(* timer) that stores a canned response in one shared `results` slot.      *)
(* Further down: the receptive-field exercise of Session 1 (ExerciseSpec), *)
(* the provisioning scripts (OpsSpec), the EC2 setup script (SetupSpec)    *)
(* and the data steps of the backup script (BackupSpec).                   *)
(*                                                                         *)
(* Conventions.  Strings typed by the user are tokens.  Decimal fractions  *)
(* of the mock responses (0.73, 0.9, ...) are written in hundredths (73,   *)
(* 90, ...).  JavaScript `null` is the record Null.                        *)
(***************************************************************************)
EXTENDS Integers, Sequences, FiniteSets, TLC

\* Number of field edits (keystroke batches) explored in one session.
MaxEdits == 2

Sections == {"readmission", "entities", "search", "cohort"}

Fields == {"patientId", "clinicalNotes", "clinicalText", "searchQuery",
           "similarityThreshold", "cohortCriteria", "startDate", "endDate"}

\* Values a user types into an input: clearing it, or some other text.
TypedValues == {"", "typed"}

PneumoniaNote == "The 65-year-old male patient admitted for pneumonia has been treated and is now ready for discharge. No acute complications noted. Monitor for readmission risk."
DiabetesText == "Patient diagnosed with type 2 diabetes mellitus and hypertension. Prescribed metformin and lisinopril."
HeartFailureQuery == "patients with congestive heart failure treated with beta blockers"
KidneyCriteria == "acute kidney injury and sepsis"

EXAMPLE_DATA ==
  [readmission |-> [patientId |-> "P123", clinicalNotes |-> PneumoniaNote],
   entities    |-> [clinicalText |-> DiabetesText],
   search      |-> [query |-> HeartFailureQuery],
   cohort      |-> [criteria |-> KidneyCriteria]]

Null == [null |-> TRUE]

\* A table whose readmission entry has score and confidence exchanged.
mockResponsesScoreSwapped ==
  [readmission |->
     [risk_score |-> 89, risk_level |-> "High", confidence |-> 73,
      factors |-> <<"Previous readmissions", "Comorbidities", "Length of stay">>,
      recommendation |-> "Consider discharge planning intervention"],
   entities |->
     [entities |->
        << [text |-> "type 2 diabetes mellitus", label |-> "CONDITION", confidence |-> 95],
           [text |-> "hypertension", label |-> "CONDITION", confidence |-> 93],
           [text |-> "metformin", label |-> "MEDICATION", confidence |-> 92],
           [text |-> "lisinopril", label |-> "MEDICATION", confidence |-> 90] >>],
   search |->
     [similar_cases |->
        << [patient_id |-> "P001", similarity |-> 91,
            diagnosis |-> "Congestive Heart Failure with Beta Blocker Therapy"],
           [patient_id |-> "P002", similarity |-> 87,
            diagnosis |-> "Heart Failure with Reduced Ejection Fraction"],
           [patient_id |-> "P003", similarity |-> 84,
            diagnosis |-> "Cardiomyopathy on Beta Blocker Treatment"] >>],
   cohort |->
     [cohort_size |-> 247, criteria_match |-> 82,
      demographics |-> [avg_age |-> 67, gender_ratio |-> "52% F, 48% M"]]]

\* A table whose similar cases are listed from the last patient id.
mockResponsesCasesReversed ==
  [readmission |->
     [risk_score |-> 73, risk_level |-> "High", confidence |-> 89,
      factors |-> <<"Previous readmissions", "Comorbidities", "Length of stay">>,
      recommendation |-> "Consider discharge planning intervention"],
   entities |->
     [entities |->
        << [text |-> "type 2 diabetes mellitus", label |-> "CONDITION", confidence |-> 95],
           [text |-> "hypertension", label |-> "CONDITION", confidence |-> 93],
           [text |-> "metformin", label |-> "MEDICATION", confidence |-> 92],
           [text |-> "lisinopril", label |-> "MEDICATION", confidence |-> 90] >>],
   search |->
     [similar_cases |->
        << [patient_id |-> "P003", similarity |-> 84,
            diagnosis |-> "Cardiomyopathy on Beta Blocker Treatment"],
           [patient_id |-> "P002", similarity |-> 87,
            diagnosis |-> "Heart Failure with Reduced Ejection Fraction"],
           [patient_id |-> "P001", similarity |-> 91,
            diagnosis |-> "Congestive Heart Failure with Beta Blocker Therapy"] >>],
   cohort |->
     [cohort_size |-> 247, criteria_match |-> 82,
      demographics |-> [avg_age |-> 67, gender_ratio |-> "52% F, 48% M"]]]

\* A table whose criteria_match is a percentage (82) rather than a fraction
\* (0.82); in hundredths it reads 8200.
mockResponsesMatchInPercent ==
  [readmission |->
     [risk_score |-> 73, risk_level |-> "High", confidence |-> 89,
      factors |-> <<"Previous readmissions", "Comorbidities", "Length of stay">>,
      recommendation |-> "Consider discharge planning intervention"],
   entities |->
     [entities |->
        << [text |-> "type 2 diabetes mellitus", label |-> "CONDITION", confidence |-> 95],
           [text |-> "hypertension", label |-> "CONDITION", confidence |-> 93],
           [text |-> "metformin", label |-> "MEDICATION", confidence |-> 92],
           [text |-> "lisinopril", label |-> "MEDICATION", confidence |-> 90] >>],
   search |->
     [similar_cases |->
        << [patient_id |-> "P001", similarity |-> 91,
            diagnosis |-> "Congestive Heart Failure with Beta Blocker Therapy"],
           [patient_id |-> "P002", similarity |-> 87,
            diagnosis |-> "Heart Failure with Reduced Ejection Fraction"],
           [patient_id |-> "P003", similarity |-> 84,
            diagnosis |-> "Cardiomyopathy on Beta Blocker Treatment"] >>],
   cohort |->
     [cohort_size |-> 247, criteria_match |-> 8200,
      demographics |-> [avg_age |-> 67, gender_ratio |-> "52% F, 48% M"]]]

mockResponses ==
  [readmission |->
     [risk_score |-> 73, risk_level |-> "High", confidence |-> 89,
      factors |-> <<"Previous readmissions", "Comorbidities", "Length of stay">>,
      recommendation |-> "Consider discharge planning intervention"],
   entities |->
     [entities |->
        << [text |-> "type 2 diabetes mellitus", label |-> "CONDITION", confidence |-> 95],
           [text |-> "hypertension", label |-> "CONDITION", confidence |-> 93],
           [text |-> "metformin", label |-> "MEDICATION", confidence |-> 92],
           [text |-> "lisinopril", label |-> "MEDICATION", confidence |-> 90] >>],
   search |->
     [similar_cases |->
        << [patient_id |-> "P001", similarity |-> 91,
            diagnosis |-> "Congestive Heart Failure with Beta Blocker Therapy"],
           [patient_id |-> "P002", similarity |-> 87,
            diagnosis |-> "Heart Failure with Reduced Ejection Fraction"],
           [patient_id |-> "P003", similarity |-> 84,
            diagnosis |-> "Cardiomyopathy on Beta Blocker Treatment"] >>],
   cohort |->
     [cohort_size |-> 247, criteria_match |-> 82,
      demographics |-> [avg_age |-> 67, gender_ratio |-> "52% F, 48% M"]]]

VARIABLES
  activeTab,      \* useState("readmission")
  loading,        \* useState(false)
  results,        \* useState<any>(null)
  formData,       \* useState({patientId: "", ...})
  pendingCalls,   \* callAPI invocations suspended at `await ... setTimeout`
  edits,          \* number of field edits made so far
  lastResolved,   \* history: endpoint of the call that resolved last
  switchedToEntities \* history: the user moved to the entities tab while a
                     \* readmission call was pending, and no entities call
                     \* has resolved since

\* The dashboard page.
pageVars == <<activeTab, loading, results, formData, pendingCalls, edits,
              lastResolved, switchedToEntities>>

\* The receptive-field exercise (Session 1, Q3).
VARIABLES
  width,          \* columns of the feature map
  height,         \* rows of the feature map
  applied         \* 3x3 convolutions applied so far

exerciseVars == <<width, height, applied>>

\* The operations scripts (deploy, monitoring, backup) and the AWS account
\* they provision.
VARIABLES
  aws,            \* the resources of the account
  run             \* the script run in progress, or the last one

opsVars == <<aws, run>>

\* The EC2 instance setup script (setup-ec2.sh), run once at instance launch.
VARIABLES
  setup           \* the position of the script, its loop variable i, and
                  \* history: probes made, sleeps taken, outcome of the probes

setupVars == <<setup>>

\* The data steps of backup.sh (from "Get database endpoint" on) and the
\* objects of the backup bucket.
VARIABLES
  today,          \* the date, in days since the first backup
  s3,             \* the keys under database/ and logs/, each a day stamp
  bk              \* the run of backup.sh in progress, or the last one

backupVars == <<today, s3, bk>>

\* What the page never touches.
offPageVars == <<exerciseVars, opsVars, setupVars, backupVars>>

vars == <<pageVars, exerciseVars, opsVars, setupVars, backupVars>>

\* Q3 starts from a 199x199 input and uses 3x3 kernels.
InputSide == 199
KernelSize == 3

ExerciseInit ==
  /\ width = InputSide
  /\ height = InputSide
  /\ applied = 0

\* Passwords `openssl rand -base64 32` is taken to produce.
NumPasswords == 2
Passwords == 1..NumPasswords

LogGroups == {"/aws/ec2/clinicalbert/ENV", "/aws/lambda/clinicalbert-health-check"}
Alarms == {"HighCPU", "HighMemory", "HealthCheck"}

\* An account in which nothing is provisioned (secret 0: no secret), and no
\* script running.
OpsInit ==
  /\ aws = [secret |-> 0, stack |-> "absent", logGroups |-> {}, alarms |-> {},
            bucket |-> FALSE, versioning |-> FALSE]
  /\ run = [script |-> "none", pc |-> "idle", dbPassword |-> 0, exit |-> "none",
            fault |-> FALSE, atStart |-> aws]

\* for i in {1..30}
ProbeAttempts == 30

\* The script has been launched and has run no command yet.
SetupInit ==
  setup = [pc |-> "install", i |-> 0, probes |-> 0, sleeps |-> 0,
           lastProbe |-> "none", ready |-> FALSE, exit |-> "running"]

\* Days a behaviour covers, and commands that fail in it.
MaxDay == 31
MaxFaults == 1

\* head -n -30
KeepLast == 30

Prefixes == {"database", "logs"}

\* An empty bucket, and no backup run yet.
BackupInit ==
  /\ today = 0
  /\ s3 = [p \in Prefixes |-> {}]
  /\ bk = [pc |-> "idle", exit |-> "none", passwordKnown |-> FALSE,
           archived |-> FALSE, succeeded |-> {}, faults |-> 0, atStart |-> s3]

Init ==
  /\ ExerciseInit
  /\ OpsInit
  /\ SetupInit
  /\ BackupInit
  /\ activeTab = "readmission"
  /\ loading = FALSE
  /\ results = Null
  /\ formData = [f \in Fields |-> ""]
  /\ pendingCalls = <<>>
  /\ edits = 0
  /\ lastResolved = "none"
  /\ switchedToEntities = FALSE

----------------------------------------------------------------------------
\* Tab switching: <Tabs value={activeTab} onValueChange={setActiveTab}>.

\* A tab switch that also clears the stored result.
SelectSectionClearing(s) ==
  /\ UNCHANGED offPageVars
  /\ activeTab' = s
  /\ results' = Null
  /\ UNCHANGED <<loading, formData, pendingCalls, edits, lastResolved,
                 switchedToEntities>>

\* A tab strip on which clicking the active tab deselects it.
SelectSectionToggling(s) ==
  /\ UNCHANGED offPageVars
  /\ activeTab' = IF s = activeTab THEN "" ELSE s
  /\ UNCHANGED <<loading, results, formData, pendingCalls, edits, lastResolved,
                 switchedToEntities>>

SelectSection(s) ==
  /\ UNCHANGED offPageVars
  /\ activeTab' = s
  /\ switchedToEntities' =
       IF /\ s = "entities"
          /\ activeTab # "entities"
          /\ pendingCalls # <<>>
          /\ Head(pendingCalls).endpoint = "readmission"
       THEN TRUE
       ELSE switchedToEntities
  /\ UNCHANGED <<loading, results, formData, pendingCalls, edits, lastResolved>>

----------------------------------------------------------------------------
\* The inputs each tab renders.

TabInputs ==
  [readmission |-> {"patientId", "clinicalNotes"},
   entities    |-> {"clinicalText"},
   search      |-> {"searchQuery", "similarityThreshold"},
   cohort      |-> {"cohortCriteria", "startDate", "endDate"}]

\* Inputs that are disabled while a call is loading.
EditFieldDisabledWhileLoading(f, v) ==
  /\ UNCHANGED offPageVars
  /\ ~loading
  /\ f \in TabInputs[activeTab]
  /\ edits < MaxEdits
  /\ formData' = [formData EXCEPT ![f] = v]
  /\ edits' = edits + 1
  /\ UNCHANGED <<activeTab, loading, results, pendingCalls, lastResolved,
                 switchedToEntities>>

\* onChange of an input: setFormData((prev) => ({...prev, [f]: e.target.value})).
EditField(f, v) ==
  /\ UNCHANGED offPageVars
  /\ f \in TabInputs[activeTab]
  /\ edits < MaxEdits
  /\ formData' = [formData EXCEPT ![f] = v]
  /\ edits' = edits + 1
  /\ UNCHANGED <<activeTab, loading, results, pendingCalls, lastResolved,
                 switchedToEntities>>

----------------------------------------------------------------------------
\* loadExample(section): the updater function handed to setFormData.

\* An updater that drops `...prev`: the other fields fall back to empty.
loadExampleNoSpread(section, prev) ==
  [f \in Fields |->
     CASE section = "readmission" /\ f = "patientId" -> EXAMPLE_DATA.readmission.patientId
       [] section = "readmission" /\ f = "clinicalNotes" -> EXAMPLE_DATA.readmission.clinicalNotes
       [] section = "entities" /\ f = "clinicalText" -> EXAMPLE_DATA.entities.clinicalText
       [] section = "search" /\ f = "searchQuery" -> EXAMPLE_DATA.search.query
       [] section = "search" /\ f = "similarityThreshold" -> "0.8"
       [] section = "cohort" /\ f = "cohortCriteria" -> EXAMPLE_DATA.cohort.criteria
       [] OTHER -> ""]

\* An updater that appends the example to the text already there: an empty
\* field receives the example, any other text becomes some longer text.
loadExampleAppending(section, prev) ==
  LET app(old, example) == IF old = "" THEN example ELSE "typed" IN
  CASE section = "readmission" ->
         [prev EXCEPT !["patientId"] = app(@, EXAMPLE_DATA.readmission.patientId),
                      !["clinicalNotes"] = app(@, EXAMPLE_DATA.readmission.clinicalNotes)]
    [] section = "entities" ->
         [prev EXCEPT !["clinicalText"] = app(@, EXAMPLE_DATA.entities.clinicalText)]
    [] section = "search" ->
         [prev EXCEPT !["searchQuery"] = app(@, EXAMPLE_DATA.search.query),
                      !["similarityThreshold"] = app(@, "0.8")]
    [] section = "cohort" ->
         [prev EXCEPT !["cohortCriteria"] = app(@, EXAMPLE_DATA.cohort.criteria)]
    [] OTHER -> prev

loadExample(section, prev) ==
  CASE section = "readmission" ->
         [prev EXCEPT !["patientId"] = EXAMPLE_DATA.readmission.patientId,
                      !["clinicalNotes"] = EXAMPLE_DATA.readmission.clinicalNotes]
    [] section = "entities" ->
         [prev EXCEPT !["clinicalText"] = EXAMPLE_DATA.entities.clinicalText]
    [] section = "search" ->
         [prev EXCEPT !["searchQuery"] = EXAMPLE_DATA.search.query,
                      !["similarityThreshold"] = "0.8"]
    [] section = "cohort" ->
         [prev EXCEPT !["cohortCriteria"] = EXAMPLE_DATA.cohort.criteria]
    [] OTHER -> prev

\* A "Load Example" button that also discards the stored result.
LoadExampleResetting(s) ==
  /\ UNCHANGED offPageVars
  /\ s = activeTab
  /\ formData' = loadExample(s, formData)
  /\ results' = Null
  /\ UNCHANGED <<activeTab, loading, pendingCalls, edits,
                 lastResolved, switchedToEntities>>

\* The "Load Example" button of the tab on display.
LoadExample(s) ==
  /\ UNCHANGED offPageVars
  /\ s = activeTab
  /\ formData' = loadExample(s, formData)
  /\ UNCHANGED <<activeTab, loading, results, pendingCalls, edits,
                 lastResolved, switchedToEntities>>

----------------------------------------------------------------------------
\* Submission: <Button onClick={() => callAPI(s, {})} disabled={loading}>.

\* A submit button that is never disabled.
SubmitNeverDisabled == FALSE

\* A submit button that is also disabled while the tab's inputs are all empty.
SubmitDisabledOnEmptyForm ==
  loading \/ \A f \in TabInputs[activeTab] : formData[f] = ""

SubmitDisabled == loading

\* A callAPI that discards the previous result when it starts.
SubmitClearing(s) ==
  /\ UNCHANGED offPageVars
  /\ s = activeTab
  /\ ~SubmitDisabled
  /\ loading' = TRUE
  /\ results' = Null
  /\ pendingCalls' = Append(pendingCalls, [endpoint |-> s, activeAtSubmit |-> activeTab])
  /\ UNCHANGED <<activeTab, formData, edits, lastResolved, switchedToEntities>>

\* A submit button that stays mounted when its tab is not selected.
SubmitFromAnyTab(s) ==
  /\ UNCHANGED offPageVars
  /\ ~SubmitDisabled
  /\ loading' = TRUE
  /\ pendingCalls' = Append(pendingCalls, [endpoint |-> s, activeAtSubmit |-> activeTab])
  /\ UNCHANGED <<activeTab, results, formData, edits, lastResolved,
                 switchedToEntities>>

\* callAPI up to its await: setLoading(true), then the 2000 ms timer is armed.
Submit(s) ==
  /\ UNCHANGED offPageVars
  /\ s = activeTab
  /\ ~SubmitDisabled
  /\ loading' = TRUE
  /\ pendingCalls' = Append(pendingCalls, [endpoint |-> s, activeAtSubmit |-> activeTab])
  /\ UNCHANGED <<activeTab, results, formData, edits, lastResolved,
                 switchedToEntities>>

\* A lookup keyed by the tab on display when the timer fires.
ResolvedResultForActiveTab(call) == mockResponses[activeTab]

\* A lookup that misses the table and yields nothing.
ResolvedResultMissing(call) == Null

\* A response computed from the submitted text: an empty note scores nothing.
callAPIResponseFromForm(endpoint, form) ==
  IF endpoint = "readmission" /\ form["clinicalNotes"] = ""
  THEN [mockResponses["readmission"] EXCEPT !.risk_score = 0, !.risk_level = "Low"]
  ELSE mockResponses[endpoint]

\* The response callAPI computes for its endpoint argument; `form` is the
\* formData in scope of callAPI, which the body never reads:
\* mockResponses[endpoint as keyof typeof mockResponses].
callAPIResponse(endpoint, form) == mockResponses[endpoint]

\* setResults(mockResponses[endpoint as keyof typeof mockResponses])
ResolvedResult(call) == callAPIResponse(call.endpoint, formData)

\* A call that rejects after its await: neither setResults nor
\* setLoading(false) runs.
CompleteRejected ==
  /\ UNCHANGED offPageVars
  /\ pendingCalls # <<>>
  /\ pendingCalls' = Tail(pendingCalls)
  /\ UNCHANGED <<activeTab, loading, results, formData, edits, lastResolved,
                 switchedToEntities>>

\* A completion that also resets the form.
CompleteClearingForm ==
  /\ UNCHANGED offPageVars
  /\ pendingCalls # <<>>
  /\ LET call == Head(pendingCalls) IN
       /\ results' = ResolvedResult(call)
       /\ lastResolved' = call.endpoint
       /\ switchedToEntities' =
            IF call.endpoint = "entities" THEN FALSE ELSE switchedToEntities
  /\ loading' = FALSE
  /\ pendingCalls' = Tail(pendingCalls)
  /\ formData' = [f \in Fields |-> ""]
  /\ UNCHANGED <<activeTab, edits>>

\* callAPI after its await: the timer fired; setResults(...), setLoading(false).
Complete ==
  /\ UNCHANGED offPageVars
  /\ pendingCalls # <<>>
  /\ LET call == Head(pendingCalls) IN
       /\ results' = ResolvedResult(call)
       /\ lastResolved' = call.endpoint
       /\ switchedToEntities' =
            IF call.endpoint = "entities" THEN FALSE ELSE switchedToEntities
  /\ loading' = FALSE
  /\ pendingCalls' = Tail(pendingCalls)
  /\ UNCHANGED <<activeTab, formData, edits>>

----------------------------------------------------------------------------
Next ==
  \/ \E s \in Sections : SelectSection(s)
  \/ \E f \in Fields, v \in TypedValues : EditField(f, v)
  \/ \E s \in Sections : LoadExample(s)
  \/ \E s \in Sections : Submit(s)
  \/ Complete

Spec == Init /\ [][Next]_vars

\* The browser fires every armed timer.
FairSpec == Spec /\ WF_vars(Complete)

----------------------------------------------------------------------------
\* SubmissionStatus as the page holds it: the loading flag and the results slot.
SubmissionStatus ==
  IF loading THEN "pending"
  ELSE IF results = Null THEN "idle" ELSE "done"

\* The keys of `results` each result panel reads.
PanelKeys ==
  [readmission |-> {"risk_score", "risk_level", "confidence", "factors", "recommendation"},
   entities    |-> {"entities"},
   search      |-> {"similar_cases"},
   cohort      |-> {"cohort_size", "criteria_match", "demographics"}]

\* {results && activeTab === s ? <result view> : <placeholder>}.  The result
\* view shows the keys it finds in `results`; a key that is absent reads as
\* undefined (an empty list, "NaN%", a blank badge).
\* A panel that falls back to its placeholder while a call is loading.
PanelViewHiddenWhileLoading(s) ==
  IF results # Null /\ ~loading /\ activeTab = s
  THEN [kind |-> "result", shown |-> PanelKeys[s] \cap DOMAIN results]
  ELSE [kind |-> "placeholder", shown |-> {}]

\* A panel that ignores which tab is active.
PanelViewAnyTab(s) ==
  IF results # Null
  THEN [kind |-> "result", shown |-> PanelKeys[s] \cap DOMAIN results]
  ELSE [kind |-> "placeholder", shown |-> {}]

PanelView(s) ==
  IF results # Null /\ activeTab = s
  THEN [kind |-> "result", shown |-> PanelKeys[s] \cap DOMAIN results]
  ELSE [kind |-> "placeholder", shown |-> {}]

----------------------------------------------------------------------------
\* C1: at most one submission is in flight, counted over all four sections;
\* while one is in flight no section's submit is enabled, whatever tab is
\* selected.
AtMostOnePending ==
  /\ Len(pendingCalls) <= 1
  /\ (pendingCalls # <<>>) =>
       /\ loading
       /\ \A s \in Sections : ~ENABLED Submit(s)

\* A call is in flight and the user has moved to another section.
PendingOnOtherTab ==
  /\ Len(pendingCalls) = 1
  /\ Head(pendingCalls).activeAtSubmit # activeTab

\* C2: a section's panel shows a result view only when the stored result came
\* from a submission for that section and the section is active; otherwise it
\* shows its placeholder.
StaleResultNeverShown ==
  \A s \in Sections :
    IF results # Null /\ lastResolved = s /\ activeTab = s
    THEN PanelView(s).kind = "result"
    ELSE PanelView(s).kind = "placeholder"

\* C3: after a switch to the entities tab during a pending readmission call,
\* the entities panel shows its placeholder until an entities call resolves.
EntitiesPlaceholderUntilResolved ==
  switchedToEntities => PanelView("entities").kind = "placeholder"

\* C4: a pending call is never dropped: it stays pending until it completes,
\* and completing stores the response of the section that was active when it
\* was submitted.
NoCancellation ==
  [][pendingCalls # <<>> =>
       \/ pendingCalls' = pendingCalls
       \/ /\ pendingCalls' = Tail(pendingCalls)
          /\ results' = mockResponses[Head(pendingCalls).activeAtSubmit]
          /\ loading' = FALSE]_vars

\* A readmission call resolved after the user had moved to the entities tab:
\* the stored result is not the one of the tab on display.
ResolvedAfterSwitch ==
  /\ switchedToEntities
  /\ ~loading
  /\ activeTab = "entities"
  /\ lastResolved = "readmission"
  /\ results = mockResponses["readmission"]

\* C5: once submit(s) has resolved, and until another submission resolves,
\* the panel of s shows a non-empty result view exactly when s is active.
ResolvedPanelShownIffActive ==
  \A s \in Sections :
    lastResolved = s =>
      ((PanelView(s).kind = "result" /\ PanelView(s).shown # {}) <=> activeTab = s)

\* The cohort call resolved; its panel is on display, then left for another tab.
CohortResultOnDisplay ==
  /\ lastResolved = "cohort"
  /\ activeTab = "cohort"
  /\ PanelView("cohort").shown = PanelKeys["cohort"]

\* C6: SubmissionStatus moves only idle -> pending, pending -> done and
\* done -> pending.
StatusEdges ==
  [][SubmissionStatus' # SubmissionStatus =>
       <<SubmissionStatus, SubmissionStatus'>> \in
          {<<"idle", "pending">>, <<"pending", "done">>, <<"done", "pending">>}]_vars

\* A second submission is pending: done -> pending has been taken.
PendingAfterDone ==
  /\ SubmissionStatus = "pending"
  /\ results # Null

\* C7: every pending submission becomes done with its result stored, whatever
\* is interleaved (FairSpec: the timer fires).
PendingLeadsToDone ==
  (pendingCalls # <<>>)
    ~> (/\ SubmissionStatus = "done"
        /\ lastResolved \in Sections
        /\ results = mockResponses[lastResolved])

\* A submission is done after edits and a tab switch were interleaved.
DoneAfterInterleaving ==
  /\ SubmissionStatus = "done"
  /\ edits > 0
  /\ lastResolved # activeTab
  /\ \E f \in Fields : formData[f] # ""

\* C8: selectSection is always enabled and changes the active section only.
SelectSectionPure ==
  /\ [](\A s \in Sections : ENABLED SelectSection(s))
  /\ [][activeTab' # activeTab =>
          /\ formData' = formData
          /\ results' = results
          /\ loading' = loading
          /\ pendingCalls' = pendingCalls]_vars

\* The search example was loaded and a search result stored, then the user
\* moved on to the cohort tab while a later call is pending.
NavigatedWithFormAndResult ==
  /\ activeTab = "cohort"
  /\ formData["searchQuery"] = HeartFailureQuery
  /\ results = mockResponses["search"]
  /\ loading

\* The canned values the examples are documented to load.
CannedValues ==
  [readmission |-> [patientId |-> "P123", clinicalNotes |-> PneumoniaNote],
   entities    |-> [clinicalText |-> DiabetesText],
   search      |-> [searchQuery |-> HeartFailureQuery, similarityThreshold |-> "0.8"],
   cohort      |-> [cohortCriteria |-> KidneyCriteria]]

\* C9: loadExample(s) sets the fields of s to their canned values and leaves
\* every other field as it was.
LoadExampleSetsCanned ==
  [][\A s \in Sections :
       LoadExample(s) =>
         /\ \A f \in DOMAIN CannedValues[s] : formData'[f] = CannedValues[s][f]
         /\ \A f \in Fields \ DOMAIN CannedValues[s] : formData'[f] = formData[f]]_vars

\* The search example is loaded next to a typed patient id.
SearchExampleLoaded ==
  /\ formData["searchQuery"] = HeartFailureQuery
  /\ formData["similarityThreshold"] = "0.8"
  /\ formData["patientId"] = "typed"
  /\ formData["cohortCriteria"] = ""

\* C10: loadExample(s) twice in a row gives the FormState of one call.
LoadExampleIdempotent ==
  [][\A s \in Sections :
       LoadExample(s) => loadExample(s, formData') = formData']_vars

\* The readmission example was loaded over typed text.
ReadmissionExampleOverTyped ==
  /\ edits > 0
  /\ formData["patientId"] = "P123"
  /\ formData["clinicalNotes"] = PneumoniaNote
  /\ formData = loadExample("readmission", formData)

\* C11: selectSection and loadExample leave SubmissionStatus as it is, in each
\* of idle, pending and done; loadExample also leaves the stored result and
\* the active section as they are.
NavigationKeepsStatus ==
  [][\A s \in Sections :
       /\ (SelectSection(s) \/ LoadExample(s)) =>
            /\ SubmissionStatus' = SubmissionStatus
            /\ loading' = loading
            /\ pendingCalls' = pendingCalls
       /\ LoadExample(s) => (results' = results /\ activeTab' = activeTab)]_vars

\* A call submitted on the search tab is pending over an earlier result while
\* the cohort example has been loaded on the cohort tab.
LoadedWhilePending ==
  /\ SubmissionStatus = "pending"
  /\ results # Null
  /\ Head(pendingCalls).endpoint = "search"
  /\ activeTab = "cohort"
  /\ formData["cohortCriteria"] = KidneyCriteria

\* The contents another run could have in its form: the current contents with
\* any one field holding any other text, the empty form, and the form with
\* every example loaded.
AlternativeForms ==
  {[formData EXCEPT ![f] = v] :
     f \in Fields, v \in TypedValues \cup {"P123", PneumoniaNote, "0.8"}}
  \cup {[f \in Fields |-> ""],
        loadExample("readmission",
          loadExample("entities",
            loadExample("search", loadExample("cohort", formData))))}

\* C12: the result a completing call stores is the one it would store for
\* any other contents of the form; it is fixed by the endpoint alone.
ResultIndependentOfForm ==
  [][(pendingCalls # <<>> /\ pendingCalls' = Tail(pendingCalls)) =>
       \A form \in AlternativeForms :
         results' = callAPIResponse(Head(pendingCalls).endpoint, form)]_vars

\* A readmission call resolved while the form held a typed note and no
\* patient id: the stored result is the table's entry all the same.
ResolvedWithTypedNote ==
  /\ lastResolved = "readmission"
  /\ ~loading
  /\ formData["clinicalNotes"] = "typed"
  /\ formData["patientId"] = ""
  /\ results = mockResponses["readmission"]

\* C13: submit has no input precondition: whenever no submission is pending,
\* submit of the active section is enabled, empty fields included, and it
\* moves SubmissionStatus to pending.
NoSubmitPrecondition ==
  /\ [](SubmissionStatus # "pending" => ENABLED Submit(activeTab))
  /\ [][(\E s \in Sections : Submit(s)) => SubmissionStatus' = "pending"]_vars

\* A submission is pending that was started with every field empty.
SubmittedEmptyForm ==
  /\ SubmissionStatus = "pending"
  /\ edits = 0
  /\ \A f \in Fields : formData[f] = ""

\* C14: a result exists only once a submission has completed, is never
\* cleared, and is always the canned value of the submission that completed
\* last.
ResultIsLastResolved ==
  /\ [](IF lastResolved = "none"
        THEN results = Null
        ELSE results = mockResponses[lastResolved])
  /\ [][results # Null => results' # Null]_vars

\* The result of the cohort call overwrote that of an earlier readmission
\* call, and a further call is pending over it.
ResultOverwritten ==
  /\ switchedToEntities
  /\ lastResolved = "cohort"
  /\ results = mockResponses["cohort"]
  /\ loading

\* C15: the form starts empty and no submission clears it: starting and
\* completing a call leave every field and the active section as they were.
SubmissionKeepsForm ==
  /\ \A f \in Fields : formData[f] = ""
  /\ [][(loading' # loading \/ results' # results \/ pendingCalls' # pendingCalls) =>
          (formData' = formData /\ activeTab' = activeTab)]_vars

\* The entities call has resolved and the text typed for it is still there.
TypedTextSurvivesSubmission ==
  /\ SubmissionStatus = "done"
  /\ lastResolved = "entities"
  /\ formData["clinicalText"] = "typed"
  /\ edits = 1

\* C16: loadExample(readmission) gives patientId "P123" and the pneumonia
\* note, and a readmission submission stores exactly risk_score 0.73,
\* risk_level "High", confidence 0.89, the three factors and the
\* recommendation (fractions in hundredths).
ReadmissionScenario ==
  /\ [][LoadExample("readmission") =>
          /\ formData'["patientId"] = "P123"
          /\ formData'["clinicalNotes"] = PneumoniaNote]_vars
  /\ [](lastResolved = "readmission" =>
          results = [risk_score |-> 73, risk_level |-> "High", confidence |-> 89,
                     factors |-> <<"Previous readmissions", "Comorbidities",
                                   "Length of stay">>,
                     recommendation |-> "Consider discharge planning intervention"])

\* The scenario has run: example loaded on the readmission tab, submitted,
\* resolved.
ReadmissionScenarioDone ==
  /\ activeTab = "readmission"
  /\ edits = 0
  /\ formData["patientId"] = "P123"
  /\ formData["clinicalNotes"] = PneumoniaNote
  /\ SubmissionStatus = "done"
  /\ lastResolved = "readmission"

\* C17: a search submission made with similarityThreshold "0.8" stores exactly
\* three similar cases, with similarities 0.91, 0.87, 0.84 in that order,
\* which is descending.
SearchScenario ==
  (lastResolved = "search") =>
    LET cases == results.similar_cases IN
      /\ Len(cases) = 3
      /\ <<cases[1].similarity, cases[2].similarity, cases[3].similarity>> = <<91, 87, 84>>
      /\ \A i \in 1..(Len(cases) - 1) : cases[i].similarity >= cases[i + 1].similarity

\* The search tab holds threshold "0.8" and its submission has resolved.
SearchScenarioDone ==
  /\ activeTab = "search"
  /\ formData["similarityThreshold"] = "0.8"
  /\ SubmissionStatus = "done"
  /\ lastResolved = "search"

\* C18: the page starts on the readmission tab with no result and nothing
\* pending, and at all times exactly one of the four sections is active.
OneActiveSection ==
  /\ activeTab = "readmission" /\ results = Null /\ ~loading /\ pendingCalls = <<>>
  /\ [](Cardinality({s \in Sections : s = activeTab}) = 1)

\* Each of the other three tabs has been visited; the cohort tab is active.
CohortTabActive ==
  /\ activeTab = "cohort"
  /\ formData["clinicalText"] = DiabetesText
  /\ formData["searchQuery"] = HeartFailureQuery

\* C21: a submission starts only from the tab on display: the call that a
\* submit starts carries the section active at that moment, and no submit of
\* another section is enabled.
SubmitOnlyFromActiveTab ==
  /\ [](\A s \in Sections : ENABLED Submit(s) => s = activeTab)
  /\ [][Len(pendingCalls') > Len(pendingCalls) =>
          pendingCalls'[Len(pendingCalls')].endpoint = activeTab]_vars
  /\ [](\A i \in 1..Len(pendingCalls) :
          pendingCalls[i].endpoint = pendingCalls[i].activeAtSubmit)

\* A call started on the search tab is pending, after a visit to two other
\* tabs on which nothing was submitted.
SearchSubmittedAfterVisits ==
  /\ pendingCalls = <<[endpoint |-> "search", activeAtSubmit |-> "search"]>>
  /\ activeTab = "search"
  /\ formData["clinicalText"] = DiabetesText
  /\ formData["cohortCriteria"] = KidneyCriteria
  /\ results = Null

\* C22: starting a submission leaves the stored result in place: while the
\* later call is pending the result of the last completed one is still stored
\* and is what the panel of the active tab renders; it changes only when the
\* pending call completes.
StartKeepsResult ==
  /\ [][(\E s \in Sections : Submit(s)) => results' = results]_vars
  /\ [][(loading /\ results' # results) =>
          (~loading' /\ pendingCalls' = Tail(pendingCalls))]_vars
  /\ []((loading /\ lastResolved # "none") =>
          /\ results = mockResponses[lastResolved]
          /\ PanelView(activeTab) =
               [kind |-> "result",
                shown |-> PanelKeys[activeTab] \cap DOMAIN mockResponses[lastResolved]])

\* A second readmission call is pending and the readmission panel still
\* renders the result of the first.
SecondCallOverShownResult ==
  /\ loading
  /\ lastResolved = "readmission"
  /\ Head(pendingCalls).endpoint = "readmission"
  /\ activeTab = "readmission"
  /\ PanelView("readmission") = [kind |-> "result", shown |-> PanelKeys["readmission"]]

\* C23: while a call is pending, submit is the only control that is disabled:
\* every tab can be selected, the example of the tab on display can be loaded
\* and its inputs edited; and a step taken while the call stays pending
\* either leaves the form alone (a tab switch) or changes it as loadExample
\* or an edit of a field of the tab on display does with nothing pending.
OnlySubmitDisabledWhilePending ==
  /\ [](loading =>
          /\ \A s \in Sections : ~ENABLED Submit(s)
          /\ \A s \in Sections : ENABLED SelectSection(s)
          /\ ENABLED LoadExample(activeTab)
          /\ edits < MaxEdits =>
               \A f \in TabInputs[activeTab], v \in TypedValues : ENABLED EditField(f, v))
  /\ [][(loading /\ loading') =>
          \/ formData' = formData
          \/ /\ activeTab' = activeTab
             /\ \/ formData' = loadExample(activeTab, formData)
                \/ \E f \in TabInputs[activeTab], v \in TypedValues :
                     formData' = [formData EXCEPT ![f] = v]]_vars

\* The first call, started on the readmission tab, is still pending; the
\* user has moved to the entities tab, and its text and example are in the form.
BusyOnEntitiesTab ==
  /\ loading
  /\ results = Null
  /\ Head(pendingCalls).endpoint = "readmission"
  /\ activeTab = "entities"
  /\ formData["clinicalText"] = DiabetesText
  /\ formData["patientId"] = "typed"
  /\ edits = MaxEdits

\* The response shapes of the four endpoints, fractions in hundredths:
\* float[0,1] is 0..100.
Fraction == 0..100
RiskLevels == {"Low", "Medium", "High"}
EntityLabels == {"CONDITION", "MEDICATION", "PROCEDURE"}

ConformsToShape(s, r) ==
  CASE s = "readmission" ->
         /\ DOMAIN r = {"risk_score", "risk_level", "confidence", "factors",
                        "recommendation"}
         /\ r.risk_score \in Fraction
         /\ r.risk_level \in RiskLevels
         /\ r.confidence \in Fraction
         /\ \A i \in 1..Len(r.factors) : r.factors[i] \in STRING
         /\ r.recommendation \in STRING
    [] s = "entities" ->
         /\ DOMAIN r = {"entities"}
         /\ \A i \in 1..Len(r.entities) :
              /\ r.entities[i].text \in STRING
              /\ r.entities[i].label \in EntityLabels
              /\ r.entities[i].confidence \in Fraction
    [] s = "search" ->
         /\ DOMAIN r = {"similar_cases"}
         /\ \A i \in 1..Len(r.similar_cases) :
              /\ r.similar_cases[i].patient_id \in STRING
              /\ r.similar_cases[i].similarity \in Fraction
              /\ r.similar_cases[i].diagnosis \in STRING
    [] s = "cohort" ->
         /\ DOMAIN r = {"cohort_size", "criteria_match", "demographics"}
         /\ r.cohort_size \in Nat
         /\ r.criteria_match \in Fraction
         /\ r.demographics.avg_age \in Nat
         /\ r.demographics.gender_ratio \in STRING
    [] OTHER -> FALSE

\* C24: every stored result has the response shape of the endpoint of the
\* call that stored it: scores, confidences, similarities and criteria_match
\* within [0,1], risk_level one of Low, Medium, High, entity labels among the
\* enumerated ones, cohort_size a natural number.
ResultConformsToShape ==
  results # Null => ConformsToShape(lastResolved, results)

\* A cohort result is stored: 247 patients, match 0.82.
CohortResultStored ==
  /\ ~loading
  /\ lastResolved = "cohort"
  /\ results.cohort_size = 247
  /\ results.criteria_match = 82

----------------------------------------------------------------------------
\* Session 1, Q3: "How many times do we need to perform 3x3 convolutions to
\* reach 1x1 from 199x199?"  Each row of the calculation applies one 3x3
\* convolution without padding, stride 1: n x n -> (n - 3 + 1) x (n - 3 + 1).

\* A convolution whose output is taken to be n - k.
Convolve3x3OffByOne ==
  /\ width >= KernelSize /\ height >= KernelSize
  /\ width' = width - KernelSize
  /\ height' = height - KernelSize
  /\ applied' = applied + 1
  /\ UNCHANGED <<pageVars, opsVars, setupVars, backupVars>>

Convolve3x3 ==
  /\ width >= KernelSize /\ height >= KernelSize
  /\ width' = width - KernelSize + 1
  /\ height' = height - KernelSize + 1
  /\ applied' = applied + 1
  /\ UNCHANGED <<pageVars, opsVars, setupVars, backupVars>>

ExerciseNext == Convolve3x3

ExerciseSpec == Init /\ [][ExerciseNext]_vars

\* C20: from 199x199, 3x3 convolutions that each take 2 off the side reach
\* 1x1 after exactly 99 applications and not earlier; every side length on
\* the way is odd and positive.
NinetyNineConvolutions ==
  /\ width = height
  /\ width = 199 - 2 * applied
  /\ width > 0 /\ width % 2 = 1
  /\ (width = 1) <=> (applied = 99)
  /\ (applied < 99) => ENABLED Convolve3x3
  /\ (applied = 99) => ~ENABLED Convolve3x3

\* The last row of the calculation: 3x3 -> 1x1 at step 99.
ReachedOneByOne ==
  /\ width = 1 /\ height = 1
  /\ applied = 99

----------------------------------------------------------------------------
\* The operations scripts.  Each aws command is one step; `ok` is whether the
\* call gets through (credentials, network, service): a call that does not
\* get through fails whatever the state of the account, and marks the run
\* with `fault`.  All three scripts run under `set -e`.

Scripts == {"deploy", "monitoring", "backup"}

FirstStep ==
  [deploy |-> "identity", monitoring |-> "log_group_ec2", backup |-> "bucket_name"]

\* A script is started from the shell; `atStart` keeps the account as the run
\* found it.
StartScript(sc) ==
  /\ run.pc \in {"idle", "exited"}
  /\ run' = [script |-> sc, pc |-> FirstStep[sc], dbPassword |-> 0,
             exit |-> "running", fault |-> FALSE, atStart |-> aws]
  /\ UNCHANGED <<aws, pageVars, exerciseVars, setupVars, backupVars>>

At(sc, step) == run.script = sc /\ run.pc = step

Goto(step, ok) == [run EXCEPT !.pc = step, !.fault = @ \/ ~ok]

\* The script ends with status 0.
Finished(ok) == [run EXCEPT !.pc = "exited", !.exit = "ok", !.fault = @ \/ ~ok]

\* `set -e`: the script ends with the failing command's non-zero status.
Aborted(ok) == [run EXCEPT !.pc = "exited", !.exit = "aborted", !.fault = @ \/ ~ok]

\* An identity check that reports the failure and carries on.
DeployCheckIdentityWarnOnly(ok) ==
  /\ At("deploy", "identity")
  /\ run' = Goto("password", ok)
  /\ UNCHANGED <<aws, pageVars, exerciseVars, setupVars, backupVars>>

\* deploy.sh: if ! aws sts get-caller-identity ...; then echo ...; exit 1; fi
DeployCheckIdentity(ok) ==
  /\ At("deploy", "identity")
  /\ run' = IF ok THEN Goto("password", ok)
            ELSE [run EXCEPT !.pc = "exited", !.exit = "exit1", !.fault = TRUE]
  /\ UNCHANGED <<aws, pageVars, exerciseVars, setupVars, backupVars>>

\* deploy.sh: DB_PASSWORD=$(openssl rand -base64 32)
DeployGeneratePassword(p) ==
  /\ At("deploy", "password")
  /\ run' = [run EXCEPT !.pc = "create_secret", !.dbPassword = p]
  /\ UNCHANGED <<aws, pageVars, exerciseVars, setupVars, backupVars>>

\* deploy.sh: aws secretsmanager create-secret ... ||
\* create-secret fails when the secret already exists.
DeployCreateSecret(ok) ==
  /\ At("deploy", "create_secret")
  /\ LET created == ok /\ aws.secret = 0 IN
       /\ aws' = IF created THEN [aws EXCEPT !.secret = run.dbPassword] ELSE aws
       /\ run' = Goto(IF created THEN "deploy_stack" ELSE "update_secret", ok)
  /\ UNCHANGED <<pageVars, exerciseVars, setupVars, backupVars>>

\* An update whose failure is ignored (`|| true`).
DeployUpdateSecretIgnoringFailure(ok) ==
  /\ At("deploy", "update_secret")
  /\ LET updated == ok /\ aws.secret # 0 IN
       /\ aws' = IF updated THEN [aws EXCEPT !.secret = run.dbPassword] ELSE aws
       /\ run' = Goto("deploy_stack", ok)
  /\ UNCHANGED <<pageVars, exerciseVars, setupVars, backupVars>>

\* deploy.sh: ... || aws secretsmanager update-secret ...
\* update-secret fails when there is no such secret.
DeployUpdateSecret(ok) ==
  /\ At("deploy", "update_secret")
  /\ LET updated == ok /\ aws.secret # 0 IN
       /\ aws' = IF updated THEN [aws EXCEPT !.secret = run.dbPassword] ELSE aws
       /\ run' = IF updated THEN Goto("deploy_stack", ok) ELSE Aborted(ok)
  /\ UNCHANGED <<pageVars, exerciseVars, setupVars, backupVars>>

\* deploy.sh: aws cloudformation deploy --template-file ... --stack-name ...
\* creates the stack, or updates it in place.
DeployStack(ok) ==
  /\ At("deploy", "deploy_stack")
  /\ aws' = IF ok THEN [aws EXCEPT !.stack = "deployed"] ELSE aws
  /\ run' = IF ok THEN Goto("describe_alb", ok) ELSE Aborted(ok)
  /\ UNCHANGED <<pageVars, exerciseVars, setupVars, backupVars>>

\* deploy.sh: ALB_DNS=$(aws cloudformation describe-stacks ...) and
\* DB_ENDPOINT=$(aws cloudformation describe-stacks ...), then the report.
DeployDescribeStacks(ok) ==
  /\ run.script = "deploy" /\ run.pc \in {"describe_alb", "describe_db"}
  /\ LET found == ok /\ aws.stack = "deployed" IN
       run' = IF ~found THEN Aborted(ok)
              ELSE IF run.pc = "describe_alb" THEN Goto("describe_db", ok)
              ELSE Finished(ok)
  /\ UNCHANGED <<aws, pageVars, exerciseVars, setupVars, backupVars>>

\* monitoring: aws logs create-log-group --log-group-name ... || true
MonitorCreateLogGroup(ok) ==
  /\ run.script = "monitoring" /\ run.pc \in {"log_group_ec2", "log_group_lambda"}
  /\ LET group == IF run.pc = "log_group_ec2"
                  THEN "/aws/ec2/clinicalbert/ENV"
                  ELSE "/aws/lambda/clinicalbert-health-check"
         created == ok /\ group \notin aws.logGroups IN
       /\ aws' = IF created THEN [aws EXCEPT !.logGroups = @ \cup {group}] ELSE aws
       /\ run' = Goto(IF run.pc = "log_group_ec2" THEN "log_group_lambda"
                      ELSE "alarm_HighCPU", ok)
  /\ UNCHANGED <<pageVars, exerciseVars, setupVars, backupVars>>

\* monitoring: aws cloudwatch put-metric-alarm --alarm-name ... (three times);
\* put-metric-alarm creates the alarm or overwrites it.
MonitorPutAlarm(ok) ==
  /\ run.script = "monitoring"
  /\ run.pc \in {"alarm_HighCPU", "alarm_HighMemory", "alarm_HealthCheck"}
  /\ LET alarm == CASE run.pc = "alarm_HighCPU" -> "HighCPU"
                    [] run.pc = "alarm_HighMemory" -> "HighMemory"
                    [] OTHER -> "HealthCheck" IN
       /\ aws' = IF ok THEN [aws EXCEPT !.alarms = @ \cup {alarm}] ELSE aws
       /\ run' = IF ~ok THEN Aborted(ok)
                 ELSE CASE run.pc = "alarm_HighCPU" -> Goto("alarm_HighMemory", ok)
                        [] run.pc = "alarm_HighMemory" -> Goto("alarm_HealthCheck", ok)
                        [] OTHER -> Finished(ok)
  /\ UNCHANGED <<pageVars, exerciseVars, setupVars, backupVars>>

\* backup.sh: BACKUP_BUCKET="clinicalbert-backups-$(aws sts get-caller-identity ...)"
\* An assignment has the status of its command substitution.
BackupBucketName(ok) ==
  /\ At("backup", "bucket_name")
  /\ run' = IF ok THEN Goto("make_bucket", ok) ELSE Aborted(ok)
  /\ UNCHANGED <<aws, pageVars, exerciseVars, setupVars, backupVars>>

\* backup.sh: aws s3 mb s3://${BACKUP_BUCKET} --region ${REGION} || true
BackupMakeBucket(ok) ==
  /\ At("backup", "make_bucket")
  /\ aws' = IF ok THEN [aws EXCEPT !.bucket = TRUE] ELSE aws
  /\ run' = Goto("put_versioning", ok)
  /\ UNCHANGED <<pageVars, exerciseVars, setupVars, backupVars>>

\* backup.sh: aws s3api put-bucket-versioning --bucket ... Status=Enabled
BackupPutVersioning(ok) ==
  /\ At("backup", "put_versioning")
  /\ LET done == ok /\ aws.bucket IN
       /\ aws' = IF done THEN [aws EXCEPT !.versioning = TRUE] ELSE aws
       /\ run' = IF done THEN Goto("backup_data", ok) ELSE Aborted(ok)
  /\ UNCHANGED <<pageVars, exerciseVars, setupVars, backupVars>>

\* backup.sh from "Get database endpoint" on: the dump, the uploads and the
\* cleanup read the stack and the secret and write objects into the bucket;
\* they leave the resources of the account record as they are.  The run ends
\* with status 0, or aborts at a failing command.  (BackupSpec, further down,
\* takes these commands one by one.)
BackupData(ok) ==
  /\ At("backup", "backup_data")
  /\ run' = IF ok /\ aws.stack = "deployed" THEN Finished(ok) ELSE Aborted(ok)
  /\ UNCHANGED <<aws, pageVars, exerciseVars, setupVars, backupVars>>

OpsNext ==
  \/ \E sc \in Scripts : StartScript(sc)
  \/ \E ok \in BOOLEAN : DeployCheckIdentity(ok)
  \/ \E p \in Passwords : DeployGeneratePassword(p)
  \/ \E ok \in BOOLEAN : DeployCreateSecret(ok)
  \/ \E ok \in BOOLEAN : DeployUpdateSecret(ok)
  \/ \E ok \in BOOLEAN : DeployStack(ok)
  \/ \E ok \in BOOLEAN : DeployDescribeStacks(ok)
  \/ \E ok \in BOOLEAN : MonitorCreateLogGroup(ok)
  \/ \E ok \in BOOLEAN : MonitorPutAlarm(ok)
  \/ \E ok \in BOOLEAN : BackupBucketName(ok)
  \/ \E ok \in BOOLEAN : BackupMakeBucket(ok)
  \/ \E ok \in BOOLEAN : BackupPutVersioning(ok)
  \/ \E ok \in BOOLEAN : BackupData(ok)

OpsSpec == Init /\ [][OpsNext]_vars

\* The resources each script provisions, as an account holds them.
Provisioned(sc, account) ==
  CASE sc = "deploy" -> <<account.secret, account.stack>>
    [] sc = "monitoring" -> <<account.logGroups, account.alarms>>
    [] OTHER -> <<account.bucket, account.versioning>>

\* The account is as a complete run of the script leaves it (for backup.sh:
\* with the stack it backs up deployed).
AlreadyProvisioned(sc, account) ==
  CASE sc = "deploy" -> account.secret # 0 /\ account.stack = "deployed"
    [] sc = "monitoring" -> account.logGroups = LogGroups /\ account.alarms = Alarms
    [] OTHER -> account.bucket /\ account.versioning /\ account.stack = "deployed"

\* C19: a script run again on an account that already holds its resources
\* completes successfully and leaves those resources as it found them.
ProvisioningIdempotent ==
  (/\ run.pc = "exited"
   /\ ~run.fault
   /\ AlreadyProvisioned(run.script, run.atStart))
    => /\ run.exit = "ok"
       /\ Provisioned(run.script, aws) = Provisioned(run.script, run.atStart)

\* C27: deploy.sh starts with the identity check; a failed check ends the
\* run with status 1, with no password generated, the secret neither created
\* nor updated and the stack not deployed.
IdentityCheckedFirst ==
  /\ [][(run.pc \in {"idle", "exited"} /\ run'.script = "deploy" /\ run'.exit = "running")
          => run'.pc = "identity"]_vars
  /\ [][(run.script = "deploy" /\ run.pc = "identity") =>
          /\ aws' = aws
          /\ run'.fault => (run'.pc = "exited" /\ run'.exit = "exit1")]_vars
  /\ []((run.script = "deploy" /\ run.exit = "exit1") =>
          /\ run.dbPassword = 0
          /\ aws.secret = run.atStart.secret
          /\ aws.stack = run.atStart.stack)

\* A run of deploy.sh on a provisioned account failed its identity check.
IdentityCheckFailed ==
  /\ run.script = "deploy"
  /\ run.exit = "exit1"
  /\ aws.secret # 0
  /\ aws.stack = "deployed"

\* C28: in deploy.sh the stack is deployed only once the secret holds the
\* password generated in this run; create-secret is attempted first,
\* update-secret only after create-secret has failed, and when both fail the
\* run aborts with the stack as it found it.
SecretBeforeStack ==
  /\ []((run.script = "deploy" /\ run.pc \in {"deploy_stack", "describe_alb", "describe_db"})
          => (run.dbPassword \in Passwords /\ aws.secret = run.dbPassword))
  /\ [][(run.script = "deploy" /\ run.pc = "password") => run'.pc = "create_secret"]_vars
  /\ [][(run.script = "deploy" /\ run'.pc = "update_secret") =>
          (run.pc = "create_secret" /\ aws' = aws)]_vars
  /\ [][(run.script = "deploy" /\ run.pc = "update_secret"
           /\ aws'.secret # run.dbPassword) =>
          (run'.pc = "exited" /\ run'.exit = "aborted" /\ aws'.stack = run.atStart.stack)]_vars
  /\ [][(aws'.stack # aws.stack) => aws.secret = run.dbPassword]_vars

\* The secret existed with another password: create-secret failed,
\* update-secret stored this run's password, and the stack step is next.
SecretUpdatedBeforeStack ==
  /\ At("deploy", "deploy_stack")
  /\ run.atStart.secret \in Passwords \ {run.dbPassword}
  /\ aws.secret = run.dbPassword

----------------------------------------------------------------------------
\* setup-ec2.sh, run under `set -e`.  `ok` is whether a command succeeds.

\* Lines 12-178: packages, Docker, the AWS CLI, the application files, the
\* systemd unit, and `docker-compose ... up -d`.  Any failing command ends
\* the script.
SetupInstallAndStart(ok) ==
  /\ setup.pc = "install"
  /\ setup' = IF ok THEN [setup EXCEPT !.pc = "probe", !.i = 1]
              ELSE [setup EXCEPT !.pc = "exited", !.exit = "aborted"]
  /\ UNCHANGED <<pageVars, exerciseVars, opsVars, backupVars>>

\* A loop body that reports readiness but has no `break`: it goes on to the
\* echo and the sleep, and to the next i.
ProbeHealthWithoutBreak(ok) ==
  /\ setup.pc = "probe"
  /\ setup' = [setup EXCEPT !.probes = @ + 1,
                            !.lastProbe = IF ok THEN "ok" ELSE "failed",
                            !.ready = @ \/ ok,
                            !.pc = "sleep"]
  /\ UNCHANGED <<pageVars, exerciseVars, opsVars, backupVars>>

\* if curl -f http://localhost:8000/health ...; then echo "ready"; break; fi
\* The probe is the condition of an `if`: its failure does not end the script.
ProbeHealth(ok) ==
  /\ setup.pc = "probe"
  /\ setup' = [setup EXCEPT !.probes = @ + 1,
                            !.lastProbe = IF ok THEN "ok" ELSE "failed",
                            !.ready = @ \/ ok,
                            !.pc = IF ok THEN "cloudwatch" ELSE "sleep"]
  /\ UNCHANGED <<pageVars, exerciseVars, opsVars, backupVars>>

\* echo "Waiting... (${i}/30)"; sleep 10; done -- then the next i, or, after
\* the last one, the command that follows the loop.
WaitAndRetry ==
  /\ setup.pc = "sleep"
  /\ setup' = IF setup.i < ProbeAttempts
              THEN [setup EXCEPT !.sleeps = @ + 1, !.i = @ + 1, !.pc = "probe"]
              ELSE [setup EXCEPT !.sleeps = @ + 1, !.pc = "cloudwatch"]
  /\ UNCHANGED <<pageVars, exerciseVars, opsVars, backupVars>>

\* Lines 191-239: the CloudWatch agent configuration is written and the agent
\* started.
SetupCloudWatch(ok) ==
  /\ setup.pc = "cloudwatch"
  /\ setup' = IF ok THEN [setup EXCEPT !.pc = "report"]
              ELSE [setup EXCEPT !.pc = "exited", !.exit = "aborted"]
  /\ UNCHANGED <<pageVars, exerciseVars, opsVars, backupVars>>

\* Lines 241-244: echo "setup completed successfully!", "Application is
\* running on http://localhost:8000"; the script ends with status 0.
SetupReport ==
  /\ setup.pc = "report"
  /\ setup' = [setup EXCEPT !.pc = "exited", !.exit = "ok"]
  /\ UNCHANGED <<pageVars, exerciseVars, opsVars, backupVars>>

SetupNext ==
  \/ \E ok \in BOOLEAN : SetupInstallAndStart(ok)
  \/ \E ok \in BOOLEAN : ProbeHealth(ok)
  \/ WaitAndRetry
  \/ \E ok \in BOOLEAN : SetupCloudWatch(ok)
  \/ SetupReport

SetupSpec == Init /\ [][SetupNext]_vars

\* The shell runs the next command of the script.
SetupFairSpec == SetupSpec /\ WF_vars(SetupNext)

\* C25: the setup script reaches its final report ("setup completed
\* successfully", "Application is running") only after a probe of /health
\* has succeeded.
ReportOnlyWhenReady ==
  (setup.pc = "report" \/ setup.exit = "ok") => setup.ready

\* C26: the readiness wait terminates: at most 30 probes are made, none after
\* the first that succeeds, a sleep is taken only right after a failed probe,
\* and the script always gets past the loop.
ReadinessWaitTerminates ==
  /\ [](setup.probes <= 30 /\ setup.sleeps <= setup.probes)
  /\ [][setup.ready => setup.probes' = setup.probes]_vars
  /\ [][setup.sleeps' # setup.sleeps =>
          (setup.lastProbe = "failed" /\ ~setup.ready /\ setup.pc = "sleep")]_vars
  /\ (setup.pc = "probe") ~> (setup.pc \notin {"probe", "sleep"})

\* The 17th probe succeeded after sixteen failures and sixteen sleeps, and
\* the script went on to its report.
ReadyAtSeventeenthProbe ==
  /\ setup.ready
  /\ setup.probes = 17
  /\ setup.sleeps = 16
  /\ setup.exit = "ok"

----------------------------------------------------------------------------
\* backup.sh, run under `set -e`, started daily or after a longer pause.  An
\* object key carries the run's `date +%Y%m%d-%H%M%S`, here the day; keys of
\* that form list in the order of their dates.  `ok` is whether a command
\* succeeds; a behaviour has at most MaxFaults failing commands.

\* # Clean up old backups (keep last 30 days)
RetentionDays == 30

\* Days between two runs: the daily schedule, or a pause longer than the
\* retention period.
Gaps == {1, RetentionDays + 1}

MayFail(ok) == ok \/ bk.faults < MaxFaults

\* The run goes on to `step`; `name` is the command just run.
BkGoto(step, name, ok) ==
  [bk EXCEPT !.pc = step,
             !.succeeded = IF ok THEN @ \cup {name} ELSE @,
             !.faults = IF ok THEN @ ELSE @ + 1]

\* `set -e`: the run ends at the failing command.
BkAborted == [bk EXCEPT !.pc = "exited", !.exit = "aborted", !.faults = @ + 1]

\* Lines 5-11: the script is started, `gap` days after the previous run.
StartBackup(gap) ==
  /\ bk.pc \in {"idle", "exited"}
  /\ gap = 0 <=> bk.pc = "idle"
  /\ today + gap <= MaxDay
  /\ today' = today + gap
  /\ bk' = [pc |-> "bucket", exit |-> "running", passwordKnown |-> FALSE,
            archived |-> FALSE, succeeded |-> {}, faults |-> bk.faults,
            atStart |-> s3]
  /\ UNCHANGED <<s3, pageVars, exerciseVars, opsVars, setupVars>>

\* Lines 9-19: the bucket name, `aws s3 mb ... || true`, put-bucket-versioning.
BackupBucket(ok) ==
  /\ bk.pc = "bucket"
  /\ MayFail(ok)
  /\ bk' = IF ok THEN BkGoto("describe_stack", "bucket", ok) ELSE BkAborted
  /\ UNCHANGED <<today, s3, pageVars, exerciseVars, opsVars, setupVars>>

\* Lines 22-26: DB_ENDPOINT=$(aws cloudformation describe-stacks ...)
BackupDescribeStack(ok) ==
  /\ bk.pc = "describe_stack"
  /\ MayFail(ok)
  /\ bk' = IF ok THEN BkGoto("get_password", "describe_stack", ok) ELSE BkAborted
  /\ UNCHANGED <<today, s3, pageVars, exerciseVars, opsVars, setupVars>>

\* Lines 29-32: DB_PASSWORD=$(aws secretsmanager get-secret-value ... | jq -r .password)
\* The status of the pipeline is jq's: when the aws call fails jq reads
\* nothing and returns 0, and the script goes on with an empty password.
BackupGetPassword(ok) ==
  /\ bk.pc = "get_password"
  /\ MayFail(ok)
  /\ bk' = [BkGoto("dump", "get_password", ok) EXCEPT !.passwordKnown = ok]
  /\ UNCHANGED <<today, s3, pageVars, exerciseVars, opsVars, setupVars>>

\* Lines 36-46: BACKUP_FILE=...; PGPASSWORD=${DB_PASSWORD} pg_dump ... > ${BACKUP_FILE}
\* Without the password pg_dump --no-password fails.
BackupDump(ok) ==
  /\ bk.pc = "dump"
  /\ MayFail(ok)
  /\ bk' = IF ok /\ bk.passwordKnown THEN BkGoto("compress", "dump", ok)
           ELSE IF ok THEN [bk EXCEPT !.pc = "exited", !.exit = "aborted"]
           ELSE BkAborted
  /\ UNCHANGED <<today, s3, pageVars, exerciseVars, opsVars, setupVars>>

\* Lines 49-50: gzip ${BACKUP_FILE}
BackupCompress(ok) ==
  /\ bk.pc = "compress"
  /\ MayFail(ok)
  /\ bk' = IF ok THEN BkGoto("upload_database", "compress", ok) ELSE BkAborted
  /\ UNCHANGED <<today, s3, pageVars, exerciseVars, opsVars, setupVars>>

\* Lines 54-59: aws s3 cp ${BACKUP_FILE} s3://.../database/${BACKUP_FILE}; rm
BackupUploadDatabase(ok) ==
  /\ bk.pc = "upload_database"
  /\ MayFail(ok)
  /\ s3' = IF ok THEN [s3 EXCEPT !["database"] = @ \cup {today}] ELSE s3
  /\ bk' = IF ok THEN BkGoto("archive_logs", "upload_database", ok) ELSE BkAborted
  /\ UNCHANGED <<today, pageVars, exerciseVars, opsVars, setupVars>>

\* Lines 63-64: LOG_BACKUP=...; tar -czf ${LOG_BACKUP} /opt/clinicalbert/logs/ || true
\* A failing tar is ignored; it leaves an incomplete archive (`partial`) or
\* none.
BackupArchiveLogs(ok, partial) ==
  /\ bk.pc = "archive_logs"
  /\ MayFail(ok)
  /\ ok => ~partial
  /\ bk' = [BkGoto("upload_logs", "archive_logs", ok) EXCEPT !.archived = ok \/ partial]
  /\ UNCHANGED <<today, s3, pageVars, exerciseVars, opsVars, setupVars>>

\* An upload of the logs archive whose failure is ignored (`|| true`).
BackupUploadLogsIgnoringFailure(ok) ==
  /\ bk.pc = "upload_logs"
  /\ MayFail(ok)
  /\ LET copied == ok /\ bk.archived IN
       /\ s3' = IF copied THEN [s3 EXCEPT !["logs"] = @ \cup {today}] ELSE s3
       /\ bk' = BkGoto("cleanup_database", "upload_logs", copied)
  /\ UNCHANGED <<today, pageVars, exerciseVars, opsVars, setupVars>>

\* Lines 66-70: aws s3 cp ${LOG_BACKUP} s3://.../logs/${LOG_BACKUP}; rm
\* With no archive to copy the command fails.
BackupUploadLogs(ok) ==
  /\ bk.pc = "upload_logs"
  /\ MayFail(ok)
  /\ LET copied == ok /\ bk.archived IN
       /\ s3' = IF copied THEN [s3 EXCEPT !["logs"] = @ \cup {today}] ELSE s3
       /\ bk' = IF copied THEN BkGoto("cleanup_database", "upload_logs", ok)
                ELSE IF ok THEN [bk EXCEPT !.pc = "exited", !.exit = "aborted"]
                ELSE BkAborted
  /\ UNCHANGED <<today, pageVars, exerciseVars, opsVars, setupVars>>

\* aws s3 ls s3://.../<prefix>/ | awk '{print $4}': the keys, in key order.
RECURSIVE Listing(_)
Listing(keys) ==
  IF keys = {} THEN <<>>
  ELSE LET last == CHOOSE k \in keys : \A other \in keys : other <= k
       IN Append(Listing(keys \ {last}), last)

\* head -n -N: every line but the last N.
HeadAllButLast(lines, n) ==
  IF Len(lines) > n THEN SubSeq(lines, 1, Len(lines) - n) ELSE <<>>

\* ... | head -n -30 | xargs -I {} aws s3 rm s3://.../<prefix>/{}
RemovedByCleanup(keys) ==
  LET lines == HeadAllButLast(Listing(keys), KeepLast)
  IN {lines[i] : i \in 1..Len(lines)}

CleanupOutcomes == {"done", "ls_failed", "rm_failed"}

\* Lines 74-77 and 79-82, one pipeline per prefix.  The status of a pipeline
\* is that of xargs: a failing `aws s3 ls` yields no lines, nothing is
\* removed and the script goes on; a failing `aws s3 rm` ends the script.
BackupCleanup(outcome) ==
  /\ bk.pc \in {"cleanup_database", "cleanup_logs"}
  /\ MayFail(outcome = "done")
  /\ LET p == IF bk.pc = "cleanup_database" THEN "database" ELSE "logs"
         next == IF bk.pc = "cleanup_database" THEN "cleanup_logs" ELSE "report" IN
       /\ s3' = IF outcome = "done"
                THEN [s3 EXCEPT ![p] = @ \ RemovedByCleanup(@)]
                ELSE s3
       /\ bk' = IF outcome = "rm_failed" THEN BkAborted
                ELSE BkGoto(next, bk.pc, outcome = "done")
  /\ UNCHANGED <<today, pageVars, exerciseVars, opsVars, setupVars>>

\* Lines 84-86: echo "Backup completed successfully!"; status 0.
BackupReport ==
  /\ bk.pc = "report"
  /\ bk' = [bk EXCEPT !.pc = "exited", !.exit = "ok"]
  /\ UNCHANGED <<today, s3, pageVars, exerciseVars, opsVars, setupVars>>

BackupNext ==
  \/ \E gap \in Gaps \cup {0} : StartBackup(gap)
  \/ \E ok \in BOOLEAN : BackupBucket(ok)
  \/ \E ok \in BOOLEAN : BackupDescribeStack(ok)
  \/ \E ok \in BOOLEAN : BackupGetPassword(ok)
  \/ \E ok \in BOOLEAN : BackupDump(ok)
  \/ \E ok \in BOOLEAN : BackupCompress(ok)
  \/ \E ok \in BOOLEAN : BackupUploadDatabase(ok)
  \/ \E ok \in BOOLEAN, partial \in BOOLEAN : BackupArchiveLogs(ok, partial)
  \/ \E ok \in BOOLEAN : BackupUploadLogs(ok)
  \/ \E outcome \in CleanupOutcomes : BackupCleanup(outcome)
  \/ BackupReport

BackupSpec == Init /\ [][BackupNext]_vars

\* C29: when a run of backup.sh has completed, under database/ and under
\* logs/ every backup that was there and is less than 30 days old is still
\* there, no backup more than 30 days old is left, and the backup of this
\* run is there.
KeepsLastThirtyDays ==
  (bk.pc = "exited" /\ bk.exit = "ok" /\ bk.faults = 0) =>
    \A p \in Prefixes :
      /\ \A d \in bk.atStart[p] : (today - d < RetentionDays) => d \in s3[p]
      /\ \A d \in s3[p] : today - d <= RetentionDays
      /\ today \in s3[p]

\* The dump, its compression and the two uploads.
StoringSteps == {"dump", "compress", "upload_database", "upload_logs"}

\* C30: the cleanup pipelines run only in a run whose dump, compression,
\* database upload and logs upload have all succeeded, with both of this
\* run's backups in the bucket; a backup that was in the bucket is removed by
\* a cleanup pipeline only; a run in which one of those steps failed is
\* aborted with every backup it found still there.
CleanupAfterStored ==
  /\ [](bk.pc \in {"cleanup_database", "cleanup_logs", "report"} =>
          /\ StoringSteps \subseteq bk.succeeded
          /\ \A p \in Prefixes : today \in s3[p])
  /\ [][(\E p \in Prefixes : ~(s3[p] \subseteq s3'[p])) =>
          /\ bk.pc \in {"cleanup_database", "cleanup_logs"}
          /\ StoringSteps \subseteq bk.succeeded]_vars
  /\ []((bk.pc = "exited" /\ ~(StoringSteps \subseteq bk.succeeded)) =>
          /\ bk.exit = "aborted"
          /\ \A p \in Prefixes : bk.atStart[p] \subseteq s3[p])

\* The 31st daily run stored its backups and its cleanup removed the first
\* backup of each prefix.
OldestBackupRemoved ==
  /\ bk.exit = "ok"
  /\ today = 30
  /\ \A p \in Prefixes : 0 \in bk.atStart[p] /\ s3[p] = 1..30

====
